---- MODULE Spec2Model ----
(***************************************************************************)
(* Tile occupancy / lookahead graph, tile credit and lane assignment of    *)
(* gym/envs/box2d/car_racing.py (CarRacing, FrictionDetector).             *)
(*                                                                         *)
(* Python dicts are insertion ordered and the code overwrites entries in   *)
(* iteration order, so a dict is modelled as a sequence of <<key, value>>  *)
(* pairs with unique keys, in insertion order.  _current_nodes and every   *)
(* step of _next_nodes are dicts id -> (dict lane -> direction).           *)
(*                                                                         *)
(* Angles are counted in units of pi/Pi, i.e. TwoPi units to the turn.     *)
(***************************************************************************)
EXTENDS Integers, Sequences, FiniteSets, TLC

VARIABLES
    info,                \* self.info: tile id -> TileInfo record
    tracks,              \* self.tracks, each sub-track by its length
    num_tracks,          \* self.num_tracks
    num_lanes,           \* self.num_lanes
    max_single_lane,     \* self.max_single_lane
    changes,             \* the change points _set_lanes keeps
    pc,                  \* position in reset(): "create_info", "set_lanes", "reset"
    current_nodes,       \* self._current_nodes
    next_nodes,          \* self._next_nodes
    tiles,               \* wheel -> obj.tiles, the tile bodies the wheel touches
    road_visited,        \* the tile bodies whose road_visited flag is set
    tile_visited_count,  \* self.tile_visited_count
    reward,              \* self.reward, in tenths of a point
    op,                  \* record of the last operation and of what it did
    self_t,              \* self.t, in frames of 1/FPS
    prev_reward,         \* self.prev_reward, in tenths of a point
    min_episode_reward,  \* self.min_episode_reward, in tenths of a point
    max_episode_reward,  \* self.max_episode_reward, in tenths of a point
    gaps,                \* the tiles whose successor segment does not join them
    candidates,          \* the main tiles close to the secondary track
    groups,              \* the runs _create_info makes of the candidates
    attempts,            \* the calls of _create_track that reset() has made
    cursor               \* the locals of the path synthesis loop of _get_track

vars == <<info, tracks, num_tracks, num_lanes, max_single_lane, changes, pc,
          current_nodes, next_nodes, tiles, road_visited,
          tile_visited_count, reward, op, self_t, prev_reward,
          min_episode_reward, max_episode_reward, gaps, candidates, groups,
          attempts, cursor>>

\* the geometry the generation works on and what it derives from it
genVars == <<gaps, candidates, groups, attempts, cursor>>

\* what the constructor and the generation of the track set
trackVars == <<info, tracks, num_tracks, num_lanes, max_single_lane, changes, pc,
               min_episode_reward, max_episode_reward, genVars>>

\* what only step() writes
stepVars == <<self_t, prev_reward>>

----------------------------------------------------------------------------
(* Bounds of the model *)

LenMain == 4      \* tiles of the main track in the occupancy model
LenSec == 3       \* tiles of the secondary track in the occupancy model
NumWheels == 2    \* wheels of the car that report contacts
MaxContacts == 2  \* tile bodies touched at the same time, over all wheels
MaxVisited == 2   \* distinct tile bodies touched in one explored episode

(* Program constants *)

SHOW_NEXT_N_TILES == 10
Pi == 2
\* np.inf: more than any reward of the model, in tenths of a point
Infinity == 1000000
\* the game-over boundary; positions are counted in units of PLAYFIELD
PLAYFIELD == 1
TwoPi == 2 * Pi
HalfPi == Pi \div 2

----------------------------------------------------------------------------
(* Insertion-ordered dicts *)

Keys(d) == {d[i][1] : i \in DOMAIN d}

Has(d, k) == \E i \in DOMAIN d : d[i][1] = k

Get(d, k) == d[CHOOSE i \in DOMAIN d : d[i][1] = k][2]

\* d[k] = v: overwrite in place, or insert at the end
Put(d, k, v) ==
    IF Has(d, k)
    THEN LET i == CHOOSE j \in DOMAIN d : d[j][1] = k
         IN  SubSeq(d, 1, i - 1) \o <<<<k, v>>>> \o SubSeq(d, i + 1, Len(d))
    ELSE Append(d, <<k, v>>)

\* del d[k]
Del(d, k) == SelectSeq(d, LAMBDA e : e[1] # k)

\* (id, lane) is an entry of the dict of dicts d
HasEntry(d, id, lane) == Has(d, id) /\ Has(Get(d, id), lane)

EntryDir(d, id, lane) == Get(Get(d, id), lane)

\* the (id, lane) pairs of a dict of dicts
Entries(d) == {e \in Keys(d) \X {0, 1} : HasEntry(d, e[1], e[2])}

----------------------------------------------------------------------------
(* The track model: self.info, as _create_info leaves it.                  *)
(* A sub-track is an array of tiles that is walked circularly; the main    *)
(* track has no start or end tile, a secondary track cut by _remove_roads  *)
(* has its end tile right before the gap and its start tile right after.   *)
(* An intersection group is one main-track tile (the key, whose id is the  *)
(* group id) plus the tagged secondary tiles closest to it.                *)

Tile(t, e, s, g) ==
    [track |-> t, end |-> e, start |-> s, intersection_id |-> g,
     lanes |-> <<TRUE, TRUE>>]

\* one track, no junction
SingleTrack == [j \in 0..(LenMain - 1) |-> Tile(0, FALSE, FALSE, -1)]

\* t-junctions: the secondary track is cut; its start tile is at relative
\* index cut, its end tile right before it (circularly); the start tile
\* joins the main tile 1, the end tile joins the main tile LenMain - 1
TJunction(cut) ==
    [j \in 0..(LenMain + LenSec - 1) |->
        IF j < LenMain
        THEN Tile(0, FALSE, FALSE,
                  IF j = 1 \/ j = LenMain - 1 THEN j ELSE -1)
        ELSE LET r == j - LenMain
                 isStart == r = cut
                 isEnd == r = (cut - 1) % LenSec
             IN  Tile(1, isEnd, isStart /\ ~isEnd,
                      IF isStart THEN 1
                      ELSE IF isEnd THEN LenMain - 1 ELSE -1)]

\* x-junctions: the secondary track is whole and crosses the main track at
\* the main tiles 1 and LenMain - 1
XJunction ==
    [j \in 0..(LenMain + LenSec - 1) |->
        IF j < LenMain
        THEN Tile(0, FALSE, FALSE,
                  IF j = 1 \/ j = LenMain - 1 THEN j ELSE -1)
        ELSE LET r == j - LenMain
             IN  Tile(1, FALSE, FALSE,
                      IF r = 0 THEN 1
                      ELSE IF r = LenSec - 1 THEN LenMain - 1 ELSE -1)]

\* a t-junction where two intersections lie side by side on the main track:
\* the secondary tile closest to the main tile 2 is the tile next to the
\* start tile, and the intersection closest to that tile is the main tile 1,
\* so the group of tile 1 holds the start tile and its neighbour
Fork ==
    [j \in 0..(LenMain + LenSec - 1) |->
        IF j < LenMain
        THEN Tile(0, FALSE, FALSE, IF j >= 1 THEN j ELSE -1)
        ELSE LET r == j - LenMain
             IN  Tile(1, r = LenSec - 1, r = 0,
                      IF r = LenSec - 1 THEN LenMain - 1 ELSE 1)]

\* a cut secondary track that no intersection was matched to (the nearest
\* main tile is farther than TRACK_WIDTH): its tiles 0 and LenSec - 1 are
\* flagged start and end and every intersection_id stays -1
Spur ==
    [j \in 0..(LenMain + LenSec - 1) |->
        IF j < LenMain
        THEN Tile(0, FALSE, FALSE, -1)
        ELSE LET r == j - LenMain
             IN  Tile(1, r = LenSec - 1, r = 0, -1)]

\* the configurations explored: a track model (self.info with the lengths
\* of self.tracks), the number of lanes and the number of wheels that report
\* contacts
Scenario(i, t, l, w) == [info |-> i, tracks |-> t, num_lanes |-> l, wheels |-> w]

Scenarios ==
    {Scenario(SingleTrack, <<LenMain>>, 2, NumWheels),
     Scenario(SingleTrack, <<LenMain>>, 1, 1),
     Scenario(TJunction(0), <<LenMain, LenSec>>, 2, 1),
     Scenario(TJunction(1), <<LenMain, LenSec>>, 1, 1),
     Scenario(XJunction, <<LenMain, LenSec>>, 1, 1),
     Scenario(Spur, <<LenMain, LenSec>>, 1, 1)}

\* len(self.tracks[t])
LenTrack(t) == tracks[t + 1]

\* len(self.track)
LenAll == Cardinality(DOMAIN info)

\* self.track[id,0,1]: the bearing of tile id, which turns once around
\* along its sub-track
Beta(id) ==
    LET t == info[id].track
        r == IF t > 0 THEN id - LenTrack(t - 1) ELSE id
    IN  (r * TwoPi) \div LenTrack(t)

\* the tile bodies _create_track instantiates
Bodies ==
    {b \in (DOMAIN info) \X (0..(num_lanes - 1)) : info[b[1]].lanes[b[2] + 1]}

\* the wheels of the car: the objects with a tiles set
Wheels == DOMAIN tiles

----------------------------------------------------------------------------
(* Helpers *)

RECURSIVE FoldLeft(_, _, _)
FoldLeft(F(_, _), z, xs) ==
    IF xs = <<>> THEN z
    ELSE LET r == F(z, Head(xs))
         IN  IF r = z THEN FoldLeft(F, z, Tail(xs))
             ELSE FoldLeft(F, r, Tail(xs))

\* the elements of a set of integers in ascending order (np.where)
RECURSIVE Ascending(_)
Ascending(S) ==
    IF S = {} THEN <<>>
    ELSE LET m == CHOOSE x \in S : \A y \in S : x <= y
         IN  <<m>> \o Ascending(S \ {m})

\* the <<id, lane, direction>> triples of a dict of dicts, in iteration order
Triples(d) ==
    FoldLeft(LAMBDA acc, e :
                 acc \o [i \in DOMAIN e[2] |-> <<e[1], e[2][i][1], e[2][i][2]>>],
             <<>>, d)

----------------------------------------------------------------------------
(* CarRacing._create_info: the runs of intersection candidates *)

\* backwards(): takes the last element off the list and goes on while the
\* new last element is the circular predecessor of the one taken
RECURSIVE Backwards(_, _)
Backwards(lst, track_len) ==
    LET me == lst[Len(lst)]
        rest == SubSeq(lst, 1, Len(lst) - 1)
    IN  IF rest = <<>> THEN [run |-> <<me>>, rest |-> rest]
        ELSE IF (me - 1) % track_len = rest[Len(rest)]
        THEN LET more == Backwards(rest, track_len)
             IN  [run |-> <<me>> \o more.run, rest |-> more.rest]
        ELSE [run |-> <<me>>, rest |-> rest]

\* forward(): takes the first element off the list and goes on while the
\* new first element is the circular successor of the one taken
RECURSIVE Forward(_, _)
Forward(lst, track_len) ==
    LET me == lst[1]
        rest == SubSeq(lst, 2, Len(lst))
    IN  IF rest = <<>> THEN [run |-> <<me>>, rest |-> rest]
        ELSE IF (me + 1) % track_len = rest[1]
        THEN LET more == Forward(rest, track_len)
             IN  [run |-> <<me>> \o more.run, rest |-> more.rest]
        ELSE [run |-> <<me>>, rest |-> rest]

\* the while loop over the sorted list: one group per pass
RECURSIVE RunGroups(_, _, _)
RunGroups(lst, track_len, acc) ==
    IF lst = <<>> THEN acc
    ELSE LET me == lst[1]
             back == Backwards(lst, track_len)
             wraps == /\ back.rest # <<>>
                      /\ (me - 1) % track_len = back.rest[Len(back.rest)]
             front == IF wraps THEN Forward(back.rest, track_len)
                      ELSE [run |-> <<>>, rest |-> back.rest]
         IN  RunGroups(front.rest, track_len, Append(acc, back.run \o front.run))

\* the geometry that belongs to a finished track model
\* the locals of _get_track before the first pass of its loop: the cursor
\* is at (1.5*TRACK_RAD, 0), where atan2 is 0
NO_FREEZE == 2500
LAPS == 4
CursorStart ==
    [zone |-> "zero", laps |-> 0, visited_other_side |-> FALSE,
     no_freeze |-> NO_FREEZE, crossings |-> 0, last_pre |-> FALSE,
     stopped |-> ""]

GapsOf(i) == {j \in DOMAIN i : i[j].end}
CandidatesOf(i) ==
    {j \in DOMAIN i : i[j].track = 0 /\ i[j].intersection_id # -1}

GenDone ==
    /\ gaps = GapsOf(info)
    /\ candidates = CandidatesOf(info)
    /\ groups = RunGroups(Ascending(candidates), tracks[1], <<>>)
    /\ attempts = 1
    /\ cursor = CursorStart

----------------------------------------------------------------------------
(* CarRacing._get_next_node *)

\* the loop over the tiles of an intersection group, in ascending id; the
\* local variable direction is overwritten at a secondary start or end tile
\* and the new value stays for the tiles that follow
RECURSIVE FanOut(_, _, _, _, _)
FanOut(ids, lane, direction, next_id, next) ==
    IF ids = <<>> THEN next
    ELSE LET tmp_id == Head(ids)
             sec == info[tmp_id].track > 0
             d == IF sec /\ (info[tmp_id].end \/ info[tmp_id].start)
                  THEN -1 ELSE direction
             entry == IF sec THEN <<<<1, d>>, <<0, d>>>>
                      ELSE IF tmp_id = next_id THEN <<<<lane, d>>>>
                      ELSE <<<<1, 0>>, <<0, 0>>>>
         IN  FanOut(Tail(ids), lane, d, next_id, Put(next, tmp_id, entry))

\* a successor function without the dead-end test of lines 420-423: it
\* walks on around the sub-track from an end tile or a start tile
GetNextNodeAround(id, lane, direction) ==
    LET t == info[id].track
        id_relative == IF t > 0 THEN id - LenTrack(t - 1) ELSE id
        next_id == (id_relative + direction) % LenTrack(t)
        intersection == info[id - id_relative + next_id].intersection_id
    IN  IF intersection # -1
        THEN FanOut(Ascending({j \in DOMAIN info :
                                 info[j].intersection_id = intersection}),
                    lane, direction, next_id, <<>>)
        ELSE <<<<id - id_relative + next_id, <<<<lane, direction>>>>>>>>

GetNextNode(id, lane, direction) ==
    IF (info[id].end /\ direction = 1) \/ (info[id].start /\ direction = -1)
    THEN <<>>
    ELSE LET t == info[id].track
             id_relative == IF t > 0 THEN id - LenTrack(t - 1) ELSE id
             next_id == (id_relative + direction) % LenTrack(t)
             intersection == info[id - id_relative + next_id].intersection_id
         IN  IF intersection # -1
             THEN FanOut(Ascending({j \in DOMAIN info :
                                      info[j].intersection_id = intersection}),
                         lane, direction, next_id, <<>>)
             ELSE <<<<id - id_relative + next_id, <<<<lane, direction>>>>>>>>

----------------------------------------------------------------------------
(* CarRacing.add_current_tile *)

\* a direction that is left at 0 unless the car is found to face backwards
DirectionOrUnknown(id, angle) ==
    IF ((Beta(id) - angle + HalfPi) % TwoPi) > Pi THEN -1 ELSE 0

\* the direction of travel on tile id for a car whose hull angle is angle
Direction(id, angle) ==
    IF ((Beta(id) - angle + HalfPi) % TwoPi) > Pi THEN -1 ELSE 1

\* hull angles to enter tile id with: the least one for each direction
Headings(id) ==
    {a \in 0..(TwoPi - 1) :
        \A a2 \in 0..(a - 1) : Direction(id, a2) # Direction(id, a)}

\* self._current_nodes after the entry is made
AddCurrent(cur, id, lane, direction) ==
    IF Has(cur, id)
    THEN Put(cur, id, Put(Get(cur, id), lane, direction))
    ELSE Put(cur, id, <<<<lane, direction>>>>)

\* the new tile is the next prediction
IsPrediction(nn, id, lane, direction) ==
    /\ HasEntry(nn[1], id, lane)
    /\ EntryDir(nn[1], id, lane) = direction

\* "Removing current new tile from nexts"
\* a reconciliation that discards the frontier on every entry
ReconcileDiscarding(nn, id, lane, direction) == <<>>

\* a reconciliation that keeps the frontier when the entry was not predicted
ReconcileKeeping(nn, id, lane, direction) ==
    IF Len(nn) > 0 /\ IsPrediction(nn, id, lane, direction)
    THEN IF Len(Get(nn[1], id)) > 1
         THEN [nn EXCEPT ![1] = Put(nn[1], id, Del(Get(nn[1], id), lane))]
         ELSE [nn EXCEPT ![1] = Del(nn[1], id)]
    ELSE nn

Reconcile(nn, id, lane, direction) ==
    IF Len(nn) > 0
    THEN IF IsPrediction(nn, id, lane, direction)
         THEN IF Len(Get(nn[1], id)) > 1
              THEN [nn EXCEPT ![1] = Put(nn[1], id, Del(Get(nn[1], id), lane))]
              ELSE [nn EXCEPT ![1] = Del(nn[1], id)]
         ELSE <<>>
    ELSE nn

\* a cleaning that leaves the empty steps in the list
CleanNothing(nn) == nn

\* "Cleaning next_nodes from empty lists"
Clean(nn) == SelectSeq(nn, LAMBDA item : Len(item) > 0)

\* the predictions one entry gives: both ways when its direction is 0
TmpPreds(id, lane, direction) ==
    IF direction = 0
    THEN <<GetNextNode(id, lane, 1), GetNextNode(id, lane, -1)>>
    ELSE <<GetNextNode(id, lane, direction)>>

\* next_nodes[k][tmp_lane] = tmp_dir for every entry of one prediction
MergePred(next, tmp_pred) ==
    FoldLeft(LAMBDA acc, kv :
                 Put(acc, kv[1],
                     FoldLeft(LAMBDA lanes, ld : Put(lanes, ld[1], ld[2]),
                              IF Has(acc, kv[1]) THEN Get(acc, kv[1]) ELSE <<>>,
                              kv[2])),
             next, tmp_pred)

\* one pass of the body of the prediction loop: the step that follows elems
ExpandStep(elems) ==
    FoldLeft(LAMBDA next, e :
                 FoldLeft(MergePred, next, TmpPreds(e[1], e[2], e[3])),
             <<>>, Triples(elems))

\* while len(self._next_nodes) < SHOW_NEXT_N_TILES
\* a prediction loop that stops at the first step without a successor
RECURSIVE PredictShort(_, _)
PredictShort(nn, cur) ==
    LET next == ExpandStep(IF Len(nn) = 0 THEN cur ELSE nn[Len(nn)])
    IN  IF Len(nn) < SHOW_NEXT_N_TILES /\ next # <<>>
        THEN PredictShort(Append(nn, next), cur)
        ELSE nn

\* a prediction loop that makes one step more than SHOW_NEXT_N_TILES
RECURSIVE PredictOneMore(_, _)
PredictOneMore(nn, cur) ==
    IF Len(nn) <= SHOW_NEXT_N_TILES
    THEN PredictOneMore(Append(nn, ExpandStep(IF Len(nn) = 0 THEN cur
                                              ELSE nn[Len(nn)])), cur)
    ELSE nn

RECURSIVE Predict(_, _)
Predict(nn, cur) ==
    IF Len(nn) < SHOW_NEXT_N_TILES
    THEN Predict(Append(nn, ExpandStep(IF Len(nn) = 0 THEN cur
                                       ELSE nn[Len(nn)])), cur)
    ELSE nn

AddCurrentTile(id, lane, angle) ==
    LET direction == Direction(id, angle)
        cur == AddCurrent(current_nodes, id, lane, direction)
        cleaned == Clean(Reconcile(next_nodes, id, lane, direction))
    IN  /\ current_nodes' = cur
        /\ next_nodes' = Predict(cleaned, cur)

----------------------------------------------------------------------------
(* CarRacing.remove_current_tile *)

RemoveCurrent(cur, id, lane) ==
    IF Has(cur, id)
    THEN IF Len(Get(cur, id)) > 1
         THEN Put(cur, id, Del(Get(cur, id), lane))
         ELSE Del(cur, id)
    ELSE cur

\* a removal that leaves the frontier alone
RemoveCurrentTileOnly(id, lane) ==
    /\ current_nodes' = RemoveCurrent(current_nodes, id, lane)
    /\ next_nodes' = next_nodes

RemoveCurrentTile(id, lane) ==
    LET cur == RemoveCurrent(current_nodes, id, lane)
    IN  /\ current_nodes' = cur
        /\ next_nodes' = IF Has(current_nodes, id) /\ Len(cur) = 0
                         THEN <<>> ELSE next_nodes

----------------------------------------------------------------------------
(* CarRacing._update_predictions and the test of _render_tiles *)

\* {k:v for l in self._next_nodes for k,v in l.items()}, then
\* .update(self._current_nodes)
UpdatePredictions(nn, cur) ==
    LET Update(trail, d) ==
            FoldLeft(LAMBDA acc, kv : Put(acc, kv[1], kv[2]), trail, d)
    IN  Update(FoldLeft(Update, <<>>, nn), cur)

\* id in self._trail_nodes and lane in self._trail_nodes[id]
Highlighted(trail, id, lane) == HasEntry(trail, id, lane)

----------------------------------------------------------------------------
(* FrictionDetector._contact, for a wheel (an object with a tiles set) and *)
(* a road tile body.  The module-level name env that _contact uses for the *)
(* two graph calls is the environment itself, as when the file is run.     *)

NoOp ==
    [kind |-> "reset", id |-> -1, lane |-> -1, credited |-> FALSE,
     matched |-> FALSE, discarded |-> FALSE, rebuilt |-> FALSE,
     trail |-> <<>>, done |-> FALSE, step_reward |-> 0,
     timed_out |-> FALSE, x |-> 0, y |-> 0, direction |-> 0, next |-> <<>>,
     outcome |-> "", shifted |-> FALSE]

\* np.clip(a, a_min, a_max)
Clip(a, a_min, a_max) ==
    LET low == IF a < a_min THEN a_min ELSE a
    IN  IF low > a_max THEN a_max ELSE low

\* reward_episode, in tenths of a point: 1000.0/len(self.env.track), clipped
\* to the limits of the configuration
RewardEpisode ==
    Clip(10000 \div LenAll, min_episode_reward, max_episode_reward)

Touching == {wb \in Wheels \X Bodies : wb[2] \in tiles[wb[1]]}

\* BeginContact: _contact(contact, True)
BeginContact(w, b, angle) ==
    LET id == b[1]
        lane == b[2]
        direction == Direction(id, angle)
        cleaned == Clean(Reconcile(next_nodes, id, lane, direction))
        first == b \notin road_visited
    IN  /\ pc = "reset"
        /\ b \notin tiles[w]
        /\ Cardinality(Touching) < MaxContacts
        /\ first => tile_visited_count < MaxVisited
        /\ AddCurrentTile(id, lane, angle)
        /\ tiles' = [tiles EXCEPT ![w] = @ \cup {b}]
        /\ road_visited' = road_visited \cup {b}
        /\ reward' = IF first THEN reward + RewardEpisode ELSE reward
        /\ tile_visited_count' =
               IF first THEN tile_visited_count + 1 ELSE tile_visited_count
        /\ op' = [NoOp EXCEPT !.kind = "begin", !.id = id, !.lane = lane,
                              !.credited = first,
                              !.matched = Len(next_nodes) > 0 /\
                                  IsPrediction(next_nodes, id, lane, direction),
                              !.discarded = Len(next_nodes) > 0 /\
                                  ~IsPrediction(next_nodes, id, lane, direction),
                              !.rebuilt = Len(cleaned) = 0,
                              !.shifted =
                                  /\ Len(next_nodes) > 0
                                  /\ IsPrediction(next_nodes, id, lane, direction)
                                  /\ Entries(next_nodes[1]) = {<<id, lane>>}
                                  /\ \A i \in 2..Len(next_nodes) :
                                         next_nodes[i] # <<>>]
        /\ UNCHANGED <<trackVars, stepVars>>

\* EndContact: _contact(contact, False)
EndContact(w, b) ==
    /\ pc = "reset"
    /\ b \in tiles[w]
    /\ tiles' = [tiles EXCEPT ![w] = @ \ {b}]
    /\ RemoveCurrentTile(b[1], b[2])
    /\ op' = [NoOp EXCEPT !.kind = "end", !.id = b[1], !.lane = b[2]]
    /\ UNCHANGED <<trackVars, stepVars, road_visited, tile_visited_count, reward>>

\* render(): self._update_predictions() then self._render_tiles(); the
\* trail is read by _render_tiles only, in the same call, and is kept in
\* the record of the operation
Render ==
    /\ pc = "reset"
    /\ op' = [NoOp EXCEPT !.kind = "render",
                          !.trail = UpdatePredictions(next_nodes, current_nodes)]
    /\ UNCHANGED <<trackVars, stepVars, current_nodes, next_nodes, tiles, road_visited,
                   tile_visited_count, reward>>

----------------------------------------------------------------------------
(* The state reset() leaves, for each track model and number of lanes *)

Init ==
    /\ \E c \in Scenarios :
           /\ info = c.info
           /\ tracks = c.tracks
           /\ num_lanes = c.num_lanes
           /\ tiles = [w \in 1..c.wheels |-> {}]
    /\ num_tracks = Len(tracks)
    /\ max_single_lane = 50
    /\ changes = {}
    /\ pc = "reset"
    /\ current_nodes = <<>>
    /\ next_nodes = <<>>
    /\ road_visited = {}
    /\ tile_visited_count = 0
    /\ reward = 0
    /\ op = NoOp
    /\ self_t = 1
    /\ prev_reward = 0
    /\ min_episode_reward = -Infinity
    /\ max_episode_reward = Infinity
    /\ GenDone

\* the contact events of the physics step
Next ==
    \/ \E w \in Wheels, b \in Bodies : \E angle \in Headings(b[1]) :
           BeginContact(w, b, angle)
    \/ \E w \in Wheels, b \in Bodies : EndContact(w, b)

Spec == Init /\ [][Next]_vars

\* the contact events and the rendering of the frame
NextRender == Next \/ Render

SpecRender == Init /\ [][NextRender]_vars

----------------------------------------------------------------------------
(* _get_next_node on its own: the calls the prediction loop makes, with the
   direction +1 or -1 (a direction 0 is split into the two before the call)
   and a lane 0 or 1 (the fan-out writes both lanes whatever num_lanes is). *)

GetNextNodeCall(id, lane, direction) ==
    /\ pc = "reset"
    /\ op' = [NoOp EXCEPT !.kind = "get_next_node",
                          !.id = id,
                          !.lane = lane,
                          !.direction = direction,
                          !.next = GetNextNode(id, lane, direction)]
    /\ UNCHANGED <<trackVars, stepVars, current_nodes, next_nodes, tiles,
                   road_visited, tile_visited_count, reward>>

NextNode ==
    \E id \in DOMAIN info, lane \in {0, 1}, direction \in {-1, 1} :
        GetNextNodeCall(id, lane, direction)

\* the track models the calls are made on
NodeScenarios ==
    Scenarios \cup {Scenario(Fork, <<LenMain, LenSec>>, 2, 1)}

InitNode ==
    /\ \E c \in NodeScenarios :
           /\ info = c.info
           /\ tracks = c.tracks
           /\ num_lanes = c.num_lanes
           /\ tiles = [w \in 1..c.wheels |-> {}]
    /\ num_tracks = Len(tracks)
    /\ max_single_lane = 50
    /\ changes = {}
    /\ pc = "reset"
    /\ current_nodes = <<>>
    /\ next_nodes = <<>>
    /\ road_visited = {}
    /\ tile_visited_count = 0
    /\ reward = 0
    /\ op = NoOp
    /\ self_t = 1
    /\ prev_reward = 0
    /\ min_episode_reward = -Infinity
    /\ max_episode_reward = Infinity
    /\ GenDone

SpecNode == InitNode /\ [][NextNode]_vars

----------------------------------------------------------------------------
(* step(action) with an action.  The contact events that world.Step fires
   are the BeginContact and EndContact steps taken since the step before;
   Step is what step() does once world.Step has returned.  Whether the car
   has been off the track for more than max_time_out, and where its hull is,
   are outcomes of the physics and are inputs here. *)

LenTiny == 2      \* tiles of the track in the step model
MaxSteps == 2     \* calls of step(action) in one explored episode

Abs(v) == IF v < 0 THEN -v ELSE v

\* a single track of LenTiny tiles
TinyTrack == [j \in 0..(LenTiny - 1) |-> Tile(0, FALSE, FALSE, -1)]

\* the hull positions explored, per coordinate
Positions == {-(PLAYFIELD + 1), 0, PLAYFIELD + 1}

\* the max_episode_reward arguments explored: the default and one point
MaxEpisodeRewardGiven == {Infinity, 10}

Step(timed_out, x, y) ==
    LET spent == reward - 1
        finished == tile_visited_count = LenAll \/ timed_out
        outside == (~finished /\ Abs(x) > PLAYFIELD) \/ Abs(y) > PLAYFIELD
    IN  /\ pc = "reset"
        /\ self_t <= MaxSteps
        /\ self_t' = self_t + 1
        /\ reward' = spent
        /\ prev_reward' = spent
        /\ op' = [NoOp EXCEPT !.kind = "step",
                              !.done = finished \/ outside,
                              !.step_reward =
                                  IF outside \/ timed_out THEN -1000
                                  ELSE spent - prev_reward,
                              !.timed_out = timed_out,
                              !.x = x,
                              !.y = y]
        /\ UNCHANGED <<trackVars, current_nodes, next_nodes, tiles,
                       road_visited, tile_visited_count>>

InitStep ==
    /\ info = TinyTrack
    /\ tracks = <<LenTiny>>
    /\ num_tracks = Len(tracks)
    /\ num_lanes \in {1, 2}
    /\ tiles = [w \in 1..1 |-> {}]
    /\ max_single_lane = 50
    /\ changes = {}
    /\ pc = "reset"
    /\ current_nodes = <<>>
    /\ next_nodes = <<>>
    /\ road_visited = {}
    /\ tile_visited_count = 0
    /\ reward = 0
    /\ op = NoOp
    /\ self_t = 1
    /\ prev_reward = 0
    /\ min_episode_reward = -Infinity
    /\ max_episode_reward \in MaxEpisodeRewardGiven
    /\ GenDone

NextStep ==
    \/ Next
    \/ \E timed_out \in BOOLEAN, x \in Positions, y \in Positions :
           Step(timed_out, x, y)

SpecStep == InitStep /\ [][NextStep]_vars

----------------------------------------------------------------------------
(* Lane assignment: _set_lanes, run once on the track model that
   _create_info has just built.  The numbers 10 and 50 of the code are kept,
   so the tracks are long enough for them: the lengths keep every index of
   the look-around loop in range. *)

LanesLenMain == 50
LanesLenSec == 30
MaxChanges == 2
DrawStride == 5

NO_CHANGE_WITHIN == 10
END_LOOKAROUND == 50
BOUNDARY_TILES == 10
MIN_MAX_SINGLE_LANE == 10
DEFAULT_MAX_SINGLE_LANE == 50

\* the max_single_lane the constructor keeps for a given argument
SetConfigMaxSingleLane(given) ==
    IF given > MIN_MAX_SINGLE_LANE THEN given ELSE DEFAULT_MAX_SINGLE_LANE

\* the arguments explored: the default 0 and the least value that is kept
MaxSingleLaneGiven == {0, MIN_MAX_SINGLE_LANE + 1}

\* a main track and a secondary track that was cut before its tile `cut`:
\* the tile before the gap is flagged end, the tile after it start
CutTrack(cut) ==
    [j \in 0..(LanesLenMain + LanesLenSec - 1) |->
        IF j < LanesLenMain
        THEN Tile(0, FALSE, FALSE, -1)
        ELSE LET r == j - LanesLenMain
                 isEnd == r = (cut - 1) % LanesLenSec
             IN  Tile(1, isEnd, r = cut /\ ~isEnd, -1)]

\* the gap lies where the array of the secondary track wraps, or in its middle
LaneCuts == {0, LanesLenSec \div 2}

\* the tile ids a change point is drawn from: every DrawStride-th tile
DrawPoints == {p \in DOMAIN info : p % DrawStride = 0}

\* np_random.randint(0, len(self.track), n) as a set of tile ids
Draws(n) == {{f[i] : i \in 1..n} : f \in [1..n -> DrawPoints]}

\* sum(info['track'] < info[idx]['track']), sum(info['track'] == ..)
StartFrom(idx) ==
    Cardinality({j \in DOMAIN info : info[j].track < info[idx].track})
Until(idx) ==
    Cardinality({j \in DOMAIN info : info[j].track = info[idx].track})

\* the drawn change points relative to the track of idx, those strictly
\* between 0 and the length of that track
ChangesInTrack(drawn, idx) ==
    {x \in {c - StartFrom(idx) : c \in drawn} : x < Until(idx) /\ x > 0}

\* another change point follows within 10 (idx is the absolute tile id)
TooClose(drawn, idx) ==
    \E x \in ChangesInTrack(drawn, idx) :
        (x - idx) > 0 /\ (x - idx) < NO_CHANGE_WITHIN

\* track_info, the tiles of the track of idx, as a sequence
TrackInfo(idx) ==
    SubSeq([k \in 1..Cardinality(DOMAIN info) |-> info[k - 1]],
           StartFrom(idx) + 1, StartFrom(idx) + Until(idx))

\* the pass at which the look-around loop over track_info breaks:
\* END_LOOKAROUND + 1 if it runs to its end, -1 if track_info[idx_relative - i]
\* is read out of range (a negative index counts from the end)
RECURSIVE BreakAt(_, _, _)
BreakAt(track_info, idx_relative, i) ==
    LET len == Len(track_info)
        ahead == (idx_relative + i) % len
        behind == idx_relative - i
    IN  IF i > END_LOOKAROUND THEN i
        ELSE IF track_info[ahead + 1].end THEN i
        ELSE IF behind < -len THEN -1
        ELSE IF track_info[(IF behind < 0 THEN behind + len ELSE behind) + 1].start
             THEN i
        ELSE BreakAt(track_info, idx_relative, i + 1)

\* the look-around loop reads track_info out of range
Raises(idx) == BreakAt(TrackInfo(idx), idx - StartFrom(idx), 0) = -1

\* a look-around that looks for an end ahead only
NearEnd(idx) ==
    LET track_info == TrackInfo(idx)
        idx_relative == idx - StartFrom(idx)
    IN  \E i \in 0..END_LOOKAROUND :
            track_info[((idx_relative + i) % Len(track_info)) + 1].end

\* an end within 50 tiles ahead or a start within 50 tiles behind
NearBoundary(idx) ==
    BreakAt(TrackInfo(idx), idx - StartFrom(idx), 0) \in 0..END_LOOKAROUND

ChangesBad(drawn) ==
    {idx \in drawn : TooClose(drawn, idx) \/ NearBoundary(idx)}

\* np.setdiff1d(changes, changes_bad)
Accepted(drawn) == drawn \ ChangesBad(drawn)

\* a marking that clears both lanes of the tile
MarkBoth(lanes, lane) == <<FALSE, FALSE>>

\* info[i]['lanes'][lane] = False
MarkLane(lanes, lane) == [lanes EXCEPT ![lane + 1] = FALSE]

\* one pass of the walk over self.track, at tile i: st holds rm_lane, lane
\* and counter, n the number of lanes drawn so far, lanes the lanes of tile i
WalkStep(st, i, chs, picks) ==
    LET change == i \in chs
        rm == (st.rm_lane + (IF change THEN 1 ELSE 0)) % 2
        pick == change /\ rm = 1
        ln == IF pick THEN picks[st.n + 1] ELSE st.lane
        cnt == IF rm = 1 THEN st.counter + 1 ELSE 0
        stop == info[i].end \/ info[i].start \/ cnt > max_single_lane
    IN  [rm_lane |-> IF stop THEN 0 ELSE rm,
         lane |-> ln,
         counter |-> cnt,
         n |-> IF pick THEN st.n + 1 ELSE st.n,
         lanes |-> IF rm = 1 THEN MarkLane(info[i].lanes, ln)
                   ELSE info[i].lanes]

\* the passes of the walk at the tiles lo..hi, in order: acc holds the state
\* of the walk before tile lo and the lanes of the tiles walked so far.  The
\* range is halved so that the evaluation does not nest once per tile.
RECURSIVE WalkRange(_, _, _, _, _)
WalkRange(lo, hi, acc, chs, picks) ==
    IF lo > hi THEN acc
    ELSE IF lo = hi
    THEN LET next == WalkStep(acc.st, lo, chs, picks)
         IN  [st |-> next, out |-> Append(acc.out, next.lanes)]
    ELSE LET mid == (lo + hi) \div 2
             left == WalkRange(lo, mid, acc, chs, picks)
         IN  IF Len(left.out) > mid
             THEN WalkRange(mid + 1, hi, left, chs, picks)
             ELSE left

\* the walk from tile i on: the lanes of the tiles 0, 1, .. in order
Walk(i, st, out, chs, picks) ==
    WalkRange(i, LenAll - 1, [st |-> st, out |-> out], chs, picks).out

\* the state of the walk before its first pass
WalkInit ==
    [rm_lane |-> 0, lane |-> 0, counter |-> 0, n |-> 0, lanes |-> <<TRUE, TRUE>>]

\* the relative indices [+i] and [-i], i in range(10), of a track of length len
Forced(len) ==
    {i : i \in 0..(BOUNDARY_TILES - 1)}
        \cup {(-i) % len : i \in 0..(BOUNDARY_TILES - 1)}

\* both lanes of the forced tiles of every track are set True;
\* walked[j + 1] holds the lanes of tile j after the walk
Override(walked) ==
    LET forced == [t \in 0..(num_tracks - 1) |-> Forced(tracks[t + 1])]
        start_from == [t \in 0..(num_tracks - 1) |->
                          IF t > 0 THEN tracks[t] ELSE 0]
    IN  [j \in DOMAIN info |->
            LET t == info[j].track
            IN  IF (j - start_from[t]) \in forced[t]
                THEN [info[j] EXCEPT !.lanes =
                         [l \in 1..2 |->
                             IF l <= num_lanes THEN TRUE ELSE walked[j + 1][l]]]
                ELSE [info[j] EXCEPT !.lanes = walked[j + 1]]]

\* _set_lanes with the change points drawn and the lanes picked
SetLanesWith(drawn, picks) ==
    /\ pc' = "set_lanes"
    /\ IF drawn # {} /\ num_lanes > 1
       THEN /\ \A idx \in drawn : ~Raises(idx)
            /\ \E chs \in {Accepted(drawn)} :
                   /\ changes' = chs
                   /\ \E walked \in {Walk(0, WalkInit, <<>>, chs, picks)} :
                          info' = Override(walked)
       ELSE UNCHANGED <<changes, info>>
    /\ UNCHANGED <<tracks, num_tracks, num_lanes, max_single_lane, stepVars, genVars,
                   min_episode_reward, max_episode_reward,
                   current_nodes, next_nodes, tiles, road_visited,
                   tile_visited_count, reward, op>>

SetLanes ==
    /\ pc = "create_info"
    /\ \E num_lanes_changes \in {0, MaxChanges} :
           \E drawn \in Draws(num_lanes_changes),
              picks \in [1..MaxChanges -> {0, 1}] :
               SetLanesWith(drawn, picks)

InitLanes ==
    /\ \E cut \in LaneCuts : info = CutTrack(cut)
    /\ tracks = <<LanesLenMain, LanesLenSec>>
    /\ num_tracks = Len(tracks)
    /\ num_lanes \in {1, 2}
    /\ \E given \in MaxSingleLaneGiven :
           max_single_lane = SetConfigMaxSingleLane(given)
    /\ changes = {}
    /\ pc = "create_info"
    /\ current_nodes = <<>>
    /\ next_nodes = <<>>
    /\ tiles = <<>>
    /\ road_visited = {}
    /\ tile_visited_count = 0
    /\ reward = 0
    /\ op = NoOp
    /\ self_t = 0
    /\ prev_reward = 0
    /\ min_episode_reward = -Infinity
    /\ max_episode_reward = Infinity
    /\ GenDone

NextLanes == SetLanes

SpecLanes == InitLanes /\ [][NextLanes]_vars

(* The same with a secondary track of more than twice the 50 tiles of the
   look-around, so that a change point on it can be far from its start and
   its end, and with a secondary track that crosses the main track and is
   not cut at all. *)

LongLenSec == 110

\* the secondary track is whole (cut = -1), or cut before its tile `cut`
LongTrack(cut) ==
    [j \in 0..(LanesLenMain + LongLenSec - 1) |->
        IF j < LanesLenMain
        THEN Tile(0, FALSE, FALSE, -1)
        ELSE LET r == j - LanesLenMain
                 isEnd == cut >= 0 /\ r = (cut - 1) % LongLenSec
             IN  Tile(1, isEnd, r = cut /\ ~isEnd, -1)]

LongCuts == {-1, 0}

InitLong ==
    /\ \E cut \in LongCuts : info = LongTrack(cut)
    /\ tracks = <<LanesLenMain, LongLenSec>>
    /\ num_tracks = Len(tracks)
    /\ num_lanes \in {1, 2}
    /\ max_single_lane = SetConfigMaxSingleLane(0)
    /\ changes = {}
    /\ pc = "create_info"
    /\ current_nodes = <<>>
    /\ next_nodes = <<>>
    /\ tiles = <<>>
    /\ road_visited = {}
    /\ tile_visited_count = 0
    /\ reward = 0
    /\ op = NoOp
    /\ self_t = 0
    /\ prev_reward = 0
    /\ min_episode_reward = -Infinity
    /\ max_episode_reward = Infinity
    /\ GenDone

SpecLong == InitLong /\ [][NextLanes]_vars

----------------------------------------------------------------------------
(* _create_info, run on the tracks _remove_roads has left: the main track is
   a closed curve, the secondary track is what is left of one, and gaps holds
   the tiles whose end point is not the start point of the tile after them.
   Distances are outcomes of the geometry: the closest tile of a run of
   candidates, whether it is close enough to be an intersection, and the
   secondary tile closest to it are inputs of the action. *)

InfoLenMain == 5
InfoLenSec == 5

\* the elements of a sequence
Range(q) == {q[i] : i \in DOMAIN q}

\* np.zeros with intersection_id = -1 and lanes = [True, True]
ZeroInfo(n) == [j \in 0..(n - 1) |-> Tile(0, FALSE, FALSE, -1)]

\* the tile before pos in its sub-track: track[j - 1], the last one for j = 0
LastOf(pos) ==
    IF pos < tracks[1] THEN (pos - 1) % tracks[1]
    ELSE tracks[1] + ((pos - tracks[1] - 1) % tracks[2])

\* the flags of lines 635-640 for tile pos of the secondary track
EndFlag(pos) == pos \in gaps

\* a classification that never flags a start
NoStartFlag(pos) == FALSE

StartFlag(pos) == ~EndFlag(pos) /\ LastOf(pos) \in gaps

\* the tiles of the secondary track
SecTiles == {j \in DOMAIN info : j >= tracks[1]}

\* _create_info with the runs made, reps[i] the closest tile of run i or -1
\* if that is further than TRACK_WIDTH, near[k] the secondary tile closest
\* to the intersection k, owner[v] the intersection closest to the tagged
\* secondary tile v
CreateInfoWith(made, reps, near, owner) ==
    LET keys == Range(reps) \ {-1}
        tagged == {near[k] : k \in keys}
    IN  /\ groups' = made
        /\ info' = [pos \in DOMAIN info |->
                       IF pos < tracks[1]
                       THEN Tile(0, FALSE, FALSE,
                                 IF pos \in keys THEN pos ELSE -1)
                       ELSE Tile(1, EndFlag(pos), StartFlag(pos),
                                 IF pos \in tagged THEN owner[pos] ELSE -1)]

CreateInfo ==
    /\ pc = "remove_roads"
    /\ pc' = "create_info"
    /\ IF num_tracks > 1
       THEN \E made \in {RunGroups(Ascending(candidates), tracks[1], <<>>)} :
                \E reps \in [DOMAIN made -> candidates \cup {-1}] :
                    /\ \A i \in DOMAIN made : reps[i] \in Range(made[i]) \cup {-1}
                    /\ \E near \in [Range(reps) \ {-1} -> SecTiles] :
                           \E owner \in [{near[k] : k \in DOMAIN near} ->
                                            DOMAIN near] :
                               CreateInfoWith(made, reps, near, owner)
       ELSE /\ groups' = <<>>
            /\ info' = info
    /\ UNCHANGED <<tracks, num_tracks, num_lanes, max_single_lane, changes,
                   min_episode_reward, max_episode_reward, gaps, candidates,
                   attempts, cursor, stepVars, current_nodes, next_nodes, tiles, road_visited,
                   tile_visited_count, reward, op>>

\* _remove_roads deletes whole sections of the secondary track, from one
\* boundary tile of an overlap with the main track to the tile before the
\* next, and a section of a single tile lies on the main track and is always
\* deleted: what is left between two gaps is at least two tiles long
Segmented(g) ==
    \A j \in g : LastOf(j) \notin g

InitInfo ==
    /\ tracks \in {<<InfoLenMain>>, <<InfoLenMain, InfoLenSec>>}
    /\ num_tracks = Len(tracks)
    /\ info = ZeroInfo(IF num_tracks > 1 THEN tracks[1] + tracks[2] ELSE tracks[1])
    /\ gaps \in {g \in SUBSET {j \in DOMAIN info : j >= tracks[1]} : Segmented(g)}
    /\ candidates \in SUBSET {j \in DOMAIN info : j < tracks[1] /\ num_tracks > 1}
    /\ groups = <<>>
    /\ attempts = 1
    /\ cursor = CursorStart
    /\ num_lanes \in {1, 2}
    /\ max_single_lane = SetConfigMaxSingleLane(0)
    /\ changes = {}
    /\ pc = "remove_roads"
    /\ current_nodes = <<>>
    /\ next_nodes = <<>>
    /\ tiles = <<>>
    /\ road_visited = {}
    /\ tile_visited_count = 0
    /\ reward = 0
    /\ op = NoOp
    /\ self_t = 0
    /\ prev_reward = 0
    /\ min_episode_reward = -Infinity
    /\ max_episode_reward = Infinity

NextInfo == CreateInfo

SpecInfo == InitInfo /\ [][NextInfo]_vars

----------------------------------------------------------------------------
(* reset(): the loop around _create_track.  One step is one call of
   _create_track; how the call ends is an outcome of the geometry drawn:
   _get_track returns False, _remove_roads returns False, no candidate
   point p3 is found for a start or end tile, or the track is built.  The
   step that builds the track runs reset() to its end. *)

MaxAttempts == 10

\* _remove_roads tells a failure only if there is a second track, and p3 is
\* looked for only at the start and end tiles of a track model
Outcomes(c) ==
    {"get_track", "ok"}
        \cup (IF Len(c.tracks) > 1 THEN {"remove_roads"} ELSE {})
        \cup (IF \E j \in DOMAIN c.info : c.info[j].start \/ c.info[j].end
              THEN {"p3"} ELSE {})

\* a loop that takes every failure of _create_track for a reason to retry
AfterAttemptRetrying(outcome) ==
    IF outcome = "ok" THEN "reset" ELSE "generating"

\* where reset() is after a call of _create_track: a falsy result makes the
\* loop go round, the RuntimeError leaves reset(), a truthy result ends it
AfterAttempt(outcome) ==
    IF outcome = "ok" THEN "reset"
    ELSE IF outcome = "p3" THEN "raised"
    ELSE "generating"

CreateTrack(c, outcome) ==
    /\ pc = "generating"
    /\ attempts < MaxAttempts
    /\ Len(c.tracks) = num_tracks
    /\ c.num_lanes = num_lanes
    /\ outcome \in Outcomes(c)
    /\ attempts' = attempts + 1
    /\ pc' = AfterAttempt(outcome)
    /\ op' = [NoOp EXCEPT !.kind = "create_track", !.outcome = outcome]
    /\ IF outcome \in {"ok", "p3"}
       THEN /\ info' = c.info
            /\ tracks' = c.tracks
            /\ gaps' = GapsOf(c.info)
            /\ candidates' = CandidatesOf(c.info)
            /\ groups' = RunGroups(Ascending(CandidatesOf(c.info)),
                                   c.tracks[1], <<>>)
       ELSE UNCHANGED <<info, tracks, gaps, candidates, groups>>
    /\ tiles' = IF outcome = "ok" THEN [w \in 1..c.wheels |-> {}] ELSE tiles
    /\ self_t' = IF outcome = "ok" THEN 1 ELSE self_t
    /\ UNCHANGED <<num_tracks, num_lanes, max_single_lane, changes,
                   min_episode_reward, max_episode_reward, prev_reward, cursor,
                   current_nodes, next_nodes, road_visited,
                   tile_visited_count, reward>>

InitReset ==
    /\ info = <<>>
    /\ tracks = <<>>
    /\ num_tracks \in {1, 2}
    /\ num_lanes \in {1, 2}
    /\ max_single_lane = SetConfigMaxSingleLane(0)
    /\ changes = {}
    /\ pc = "generating"
    /\ gaps = {}
    /\ candidates = {}
    /\ groups = <<>>
    /\ attempts = 0
    /\ cursor = CursorStart
    /\ current_nodes = <<>>
    /\ next_nodes = <<>>
    /\ tiles = <<>>
    /\ road_visited = {}
    /\ tile_visited_count = 0
    /\ reward = 0
    /\ op = NoOp
    /\ self_t = 0
    /\ prev_reward = 0
    /\ min_episode_reward = -Infinity
    /\ max_episode_reward = Infinity

NextReset == \E c \in Scenarios, outcome \in {"get_track", "remove_roads", "p3", "ok"} :
                 CreateTrack(c, outcome)

SpecReset == InitReset /\ [][NextReset]_vars

----------------------------------------------------------------------------
(* _get_track: the path synthesis loop and the search for the closed loop.
   The cursor turns around the origin.  Of its position the code uses the
   sign of atan2(y, x) and whether the angle it stores in the track is at
   most start_alpha, so the turn is divided in zones:
     "zero"  atan2 = 0, the position before the first pass
     "pos"   atan2 > 0
     "far"   atan2 < 0, up to the last checkpoint: the stored angle is in
             (pi, 2*pi*11/12]
     "pre"   past the last checkpoint, where 2*pi is subtracted: the stored
             angle is negative and at most start_alpha
     "post"  the same with the stored angle above start_alpha
   One cursor step is far shorter than a zone; whether it takes the cursor
   into the next zone is an outcome of the geometry. *)

NextZone(zone) ==
    IF zone \in {"zero", "post"} THEN "pos"
    ELSE IF zone = "pos" THEN "far"
    ELSE IF zone = "far" THEN "pre"
    ELSE "post"

\* the crossings of start_alpha the backwards search can tell apart
MaxCrossings == 2

\* one pass of the while loop, from a position in cursor.zone; advance tells
\* whether the step taken leaves the zone
CursorStep(advance) ==
    LET counted == cursor.visited_other_side /\ cursor.zone = "pos"
        laps == IF counted THEN cursor.laps + 1 ELSE cursor.laps
        visited == IF cursor.zone \in {"far", "pre", "post"} THEN TRUE
                   ELSE IF counted THEN FALSE
                   ELSE cursor.visited_other_side
        pre == cursor.zone = "pre"
        pass_through_start == cursor.last_pre /\ ~pre
        crossings == IF pass_through_start /\ cursor.crossings < MaxCrossings
                     THEN cursor.crossings + 1 ELSE cursor.crossings
        stopped == IF laps > LAPS THEN "laps"
                   ELSE IF cursor.no_freeze - 1 = 0 THEN "budget"
                   ELSE ""
    IN  /\ pc = "get_track"
        /\ cursor' = [zone |-> IF advance THEN NextZone(cursor.zone)
                               ELSE cursor.zone,
                      laps |-> laps,
                      visited_other_side |-> visited,
                      no_freeze |-> IF laps > LAPS THEN cursor.no_freeze
                                    ELSE cursor.no_freeze - 1,
                      crossings |-> crossings,
                      last_pre |-> pre,
                      stopped |-> stopped]
        /\ pc' = IF stopped = "" THEN "get_track" ELSE "close_loop"
        /\ UNCHANGED <<info, tracks, num_tracks, num_lanes, max_single_lane,
                       changes, min_episode_reward, max_episode_reward,
                       gaps, candidates, groups, attempts, stepVars,
                       current_nodes, next_nodes, tiles, road_visited,
                       tile_visited_count, reward, op>>

\* the backwards search for i2 and i1 and the test of the jump between the
\* head and the tail of the loop; glued is the outcome of that test
CloseLoop(glued) ==
    /\ pc = "close_loop"
    /\ pc' = "got_track"
    /\ op' = [NoOp EXCEPT !.kind = "get_track",
                          !.outcome = IF cursor.crossings < MaxCrossings THEN "False"
                                      ELSE IF ~glued THEN "False"
                                      ELSE "track"]
    /\ UNCHANGED <<info, tracks, num_tracks, num_lanes, max_single_lane,
                   changes, min_episode_reward, max_episode_reward, genVars,
                   stepVars, current_nodes, next_nodes, tiles, road_visited,
                   tile_visited_count, reward>>

InitTrack ==
    /\ info = <<>>
    /\ tracks = <<>>
    /\ num_tracks \in {1, 2}
    /\ num_lanes \in {1, 2}
    /\ max_single_lane = SetConfigMaxSingleLane(0)
    /\ changes = {}
    /\ pc = "get_track"
    /\ gaps = {}
    /\ candidates = {}
    /\ groups = <<>>
    /\ attempts = 1
    /\ cursor = CursorStart
    /\ current_nodes = <<>>
    /\ next_nodes = <<>>
    /\ tiles = <<>>
    /\ road_visited = {}
    /\ tile_visited_count = 0
    /\ reward = 0
    /\ op = NoOp
    /\ self_t = 0
    /\ prev_reward = 0
    /\ min_episode_reward = -Infinity
    /\ max_episode_reward = Infinity

NextTrack ==
    \/ \E advance \in BOOLEAN : CursorStep(advance)
    \/ \E glued \in BOOLEAN : CloseLoop(glued)

SpecTrack == InitTrack /\ [][NextTrack]_vars

----------------------------------------------------------------------------
(* Occupancy graph and tile credit: the claims *)

\* the tile ids that have a visited body
VisitedIds == {b[1] : b \in road_visited}

\* C1: the visit credit fires once per tile id, on the first begin-contact
\* with any lane of the tile: the number of credits given is the number of
\* tile ids touched so far.
C1_CreditOncePerTile == tile_visited_count = Cardinality(VisitedIds)

\* an entry that has no successor: an end tile travelled forwards or a start
\* tile travelled backwards (either way when the direction is 0)
IsDeadEnd(e) ==
    \/ info[e[1]].end /\ e[3] \in {0, 1}
    \/ info[e[1]].start /\ e[3] \in {0, -1}

\* a dead-end lies within N successor steps of the occupied tiles: among
\* the occupied tiles or the tiles reached from them in 1, .., N - 1 steps
DeadEndNear ==
    LET reach == <<current_nodes>> \o Predict(<<>>, current_nodes)
        ends == [k \in 1..SHOW_NEXT_N_TILES |->
                    LET es == Triples(reach[k])
                    IN  \E i \in DOMAIN es : IsDeadEnd(es[i])]
    IN  \E k \in 1..SHOW_NEXT_N_TILES : ends[k]

\* C2, as claimed: after add_current_tile the frontier has exactly N steps
\* when no dead-end lies within N steps and fewer than N steps when one does.
C2_LengthByDeadEnd ==
    op.kind = "begin" =>
        IF DeadEndNear THEN Len(next_nodes) < SHOW_NEXT_N_TILES
        ELSE Len(next_nodes) = SHOW_NEXT_N_TILES

\* C2, amended: after add_current_tile the frontier has exactly N steps,
\* dead-end or not; the steps past a dead-end are empty and close the list.
C2_AlwaysNSteps ==
    op.kind = "begin" =>
        /\ Len(next_nodes) = SHOW_NEXT_N_TILES
        /\ \A i \in 1..(Len(next_nodes) - 1) :
               next_nodes[i] = <<>> => next_nodes[i + 1] = <<>>

C2_Witness ==
    /\ op.kind = "begin"
    /\ DeadEndNear
    /\ Len(next_nodes) = SHOW_NEXT_N_TILES
    /\ next_nodes[1] # <<>>
    /\ next_nodes[SHOW_NEXT_N_TILES] = <<>>

\* the step taken is an entry of (id, lane) that the head of the frontier
\* holds with the direction the entry is made with
EntersPrediction ==
    /\ op'.kind = "begin"
    /\ Len(next_nodes) > 0
    /\ HasEntry(next_nodes[1], op'.id, op'.lane)
    /\ EntryDir(next_nodes[1], op'.id, op'.lane) =
           EntryDir(current_nodes', op'.id, op'.lane)

\* the step taken is an entry of (id, lane) that the head of the frontier
\* does not hold with that direction
EntersElsewhere ==
    /\ op'.kind = "begin"
    /\ Len(next_nodes) > 0
    /\ ~ /\ HasEntry(next_nodes[1], op'.id, op'.lane)
         /\ EntryDir(next_nodes[1], op'.id, op'.lane) =
                EntryDir(current_nodes', op'.id, op'.lane)

\* every step after the head of the old frontier is a step of the new one
LaterStepsKept ==
    \A i \in 2..Len(next_nodes) :
        \E j \in DOMAIN next_nodes' : next_nodes'[j] = next_nodes[i]

\* the matched entry is the only entry of the whole frontier
OnlyEntryLeft ==
    /\ Entries(next_nodes[1]) = {<<op'.id, op'.lane>>}
    /\ \A i \in 2..Len(next_nodes) : next_nodes[i] = <<>>

C4_MismatchRebuilds ==
    [][EntersElsewhere =>
          /\ HasEntry(current_nodes', op'.id, op'.lane)
          /\ next_nodes'[1] = ExpandStep(current_nodes')
          /\ \A i \in 1..(Len(next_nodes') - 1) :
                 next_nodes'[i + 1] = ExpandStep(next_nodes'[i])]_vars

C4_Witness ==
    /\ op.kind = "begin"
    /\ op.discarded
    /\ Len(current_nodes) > 1
    /\ next_nodes[1] = ExpandStep(current_nodes)

\* C5: remove_current_tile(T, L) leaves every other occupancy entry in
\* place, with its direction.
C5_RemoveOnlyThatEntry ==
    [][op'.kind = "end" =>
          \A e \in Entries(current_nodes) \ {<<op'.id, op'.lane>>} :
              /\ HasEntry(current_nodes', e[1], e[2])
              /\ EntryDir(current_nodes', e[1], e[2]) =
                     EntryDir(current_nodes, e[1], e[2])]_vars

\* C6: an exit event that leaves the occupancy empty leaves the frontier
\* empty.
C6_EmptyOccupancyEmptyFrontier ==
    (op.kind = "end" /\ current_nodes = <<>>) => next_nodes = <<>>

C6_Witness ==
    /\ op.kind = "end"
    /\ current_nodes = <<>>
    /\ next_nodes = <<>>
    /\ \E w \in Wheels : tiles[w] # {}

\* C7: the trail is the union of the occupancy and of all frontier steps,
\* by (tile, lane): a pair is highlighted exactly when it is occupied or
\* predicted.
C7_TrailIsUnion ==
    op.kind = "render" =>
        \A b \in Bodies :
            Highlighted(op.trail, b[1], b[2]) <=>
                \/ HasEntry(current_nodes, b[1], b[2])
                \/ \E i \in DOMAIN next_nodes : HasEntry(next_nodes[i], b[1], b[2])

----------------------------------------------------------------------------
(* Lane assignment: the claims *)

\* the index of tile j within its track, and the length of that track
Rel(j) == j - StartFrom(j)
TrackLen(j) == Until(j)

\* C8: after _set_lanes the first 10 and the last 10 tiles of every
\* sub-track have both lanes, whatever the change points and
\* max_single_lane.
C8_BoundaryTilesBothLanes ==
    pc = "set_lanes" =>
        \A j \in DOMAIN info :
            (Rel(j) < 10 \/ Rel(j) >= TrackLen(j) - 10) =>
                info[j].lanes = <<TRUE, TRUE>>

\* C9: after _set_lanes no tile has lost both lanes.
C9_NeverBothLanesOff ==
    pc = "set_lanes" =>
        \A j \in DOMAIN info : info[j].lanes # <<FALSE, FALSE>>

C9_Witness ==
    /\ pc = "set_lanes"
    /\ Cardinality(changes) = MaxChanges
    /\ \E j, k \in DOMAIN info :
           /\ info[j].lanes = <<FALSE, TRUE>>
           /\ info[k].lanes = <<TRUE, FALSE>>

\* C10: after _set_lanes every tile flagged start or end has both lanes,
\* for every accepted set of change points and every max_single_lane.
C10_StartEndBothLanes ==
    pc = "set_lanes" =>
        \A j \in DOMAIN info :
            (info[j].end \/ info[j].start) => info[j].lanes = <<TRUE, TRUE>>

\* C11: generation is determined by the environment seed: the change
\* points come from the seeded source, so two generations that keep the same
\* change points on the same track give every tile the same lanes, whatever
\* the other random source (the lanes np.random picks) gives.
C11_SameSeedSameLanes ==
    [][(pc = "create_info" /\ pc' = "set_lanes") =>
          \A picks \in [1..MaxChanges -> {0, 1}] :
              \E walked \in {Walk(0, WalkInit, <<>>, changes', picks)} :
                  Override(walked) = info']_vars

----------------------------------------------------------------------------
(* step(): the claims *)

\* the hull is inside the playfield
Inside(x, y) == Abs(x) <= PLAYFIELD /\ Abs(y) <= PLAYFIELD

\* C12: a step with an action that is neither timed out nor outside the
\* playfield reports done exactly when every tile id of the track has been
\* visited, with 1 lane or 2.
C12_DoneIffAllTilesVisited ==
    (op.kind = "step" /\ ~op.timed_out /\ Inside(op.x, op.y)) =>
        (op.done <=> VisitedIds = DOMAIN info)

\* C13: a step with an action that ends with the hull outside the playfield
\* returns done and the step reward -100, whichever coordinate is outside
\* and whatever else ends the episode on that step.
C13_OutsideEndsWithPenalty ==
    (op.kind = "step" /\ ~Inside(op.x, op.y)) =>
        (op.done /\ op.step_reward = -1000)

\* C14: with a finite max_episode_reward the reward gathered from tile
\* visits (the reward with the 0.1 of every step given back) never exceeds
\* max_episode_reward.
C14_TileRewardWithinLimit ==
    max_episode_reward # Infinity =>
        reward + (self_t - 1) <= max_episode_reward

----------------------------------------------------------------------------
(* Lane assignment: further claims *)

\* tile j has one lane disabled
SingleLane(j) == info[j].lanes # <<TRUE, TRUE>>

\* C15: after _set_lanes no stretch of consecutive single-lane tiles of a
\* sub-track is longer than max_single_lane: no max_single_lane + 1 tiles in
\* a row are all single-lane.
C15_RunWithinMaxSingleLane ==
    pc = "set_lanes" =>
        \A j \in DOMAIN info :
            ~ \A k \in j..(j + max_single_lane) :
                  /\ k \in DOMAIN info
                  /\ info[k].track = info[j].track
                  /\ SingleLane(k)

----------------------------------------------------------------------------
(* _get_next_node: the claims *)

\* the first tile id of the sub-track of tile id
TrackStart(id) == IF info[id].track > 0 THEN LenTrack(info[id].track - 1) ELSE 0

\* the naive successor: the tile at index +direction within the sub-track
\* of id, wrapping circularly
NaiveSuccessor(id, direction) ==
    TrackStart(id)
        + (((id - TrackStart(id)) + direction) % LenTrack(info[id].track))

\* the tiles of the intersection group g
Group(g) == {j \in DOMAIN info : info[j].intersection_id = g}

\* C16: _get_next_node(T, L, D), D = -1 or +1, returns no successor exactly
\* when T is an end tile and D = +1 or T is a start tile and D = -1; and
\* when the naive successor is in no intersection group the result is that
\* one tile with lane L and direction D.
C16_SuccessorOrDeadEnd ==
    op.kind = "get_next_node" =>
        LET succ == NaiveSuccessor(op.id, op.direction)
            dead == \/ info[op.id].end /\ op.direction = 1
                    \/ info[op.id].start /\ op.direction = -1
        IN  /\ (op.next = <<>>) <=> dead
            /\ (~dead /\ info[succ].intersection_id = -1) =>
                   op.next = <<<<succ, <<<<op.lane, op.direction>>>>>>>>

C16_Witness ==
    /\ op.kind = "get_next_node"
    /\ info[op.id].end
    /\ op.direction = 1
    /\ op.next = <<>>

\* C17: when the naive successor of (T, L, D) is in an intersection group,
\* a main-track member of the group that is the naive successor gets
\* exactly lane L with direction D, and a main-track member that is not
\* gets both lanes with direction 0, for T on either track.
C17_FanOutMainMembers ==
    op.kind = "get_next_node" =>
        LET succ == NaiveSuccessor(op.id, op.direction)
        IN  (op.next # <<>> /\ info[succ].intersection_id # -1) =>
                \A m \in Group(info[succ].intersection_id) :
                    info[m].track = 0 =>
                        /\ Has(op.next, m)
                        /\ IF m = succ
                           THEN Get(op.next, m) = <<<<op.lane, op.direction>>>>
                           ELSE /\ Keys(Get(op.next, m)) = {0, 1}
                                /\ \A l \in {0, 1} : Get(Get(op.next, m), l) = 0

----------------------------------------------------------------------------
(* Direction 0 *)

\* C18: no occupancy entry has direction 0, and every frontier entry with
\* direction 0 is on a tile that belongs to an intersection group.
C18_DirectionZeroOnlyAtJunctions ==
    /\ \A e \in Entries(current_nodes) : EntryDir(current_nodes, e[1], e[2]) # 0
    /\ \A k \in DOMAIN next_nodes :
           \A e \in Entries(next_nodes[k]) :
               EntryDir(next_nodes[k], e[1], e[2]) = 0 =>
                   info[e[1]].intersection_id # -1

C18_Witness ==
    /\ current_nodes # <<>>
    /\ \E k \in DOMAIN next_nodes :
           \E e \in Entries(next_nodes[k]) :
               EntryDir(next_nodes[k], e[1], e[2]) = 0

----------------------------------------------------------------------------
(* The kept change points *)

\* the distance from tile a forward to tile b of the same sub-track, the
\* sub-track taken as a circle
Ahead(a, b) == (b - a) % TrackLen(a)

\* C19: two distinct kept change points of the same sub-track are never
\* fewer than 10 tiles apart, on the main track and on a secondary track.
C19_KeptChangesApart ==
    pc = "set_lanes" =>
        \A a \in changes, b \in changes :
            (a < b /\ info[a].track = info[b].track) =>
                b - a >= NO_CHANGE_WITHIN

\* C20: a kept change point has no start tile and no end tile of its
\* sub-track within 50 tiles of it, ahead or behind.
C20_KeptChangesFarFromBoundary ==
    pc = "set_lanes" =>
        \A c \in changes :
            \A j \in DOMAIN info :
                (info[j].track = info[c].track /\ (info[j].start \/ info[j].end)) =>
                    /\ Ahead(c, j) > END_LOOKAROUND
                    /\ Ahead(j, c) > END_LOOKAROUND

C20_Witness ==
    /\ pc = "set_lanes"
    /\ \E c \in changes :
           \E j \in DOMAIN info :
               info[j].track = info[c].track /\ (info[j].start \/ info[j].end)

----------------------------------------------------------------------------
(* _create_info: the claims *)

\* C21: after _create_info a tile of the secondary track is flagged end
\* exactly when the segment after it does not join it and flagged start
\* exactly when the segment before it does not join it, and no tile of the
\* main track is flagged start or end.
C21_StartEndByContiguity ==
    pc = "create_info" =>
        \A pos \in DOMAIN info :
            IF pos >= tracks[1]
            THEN /\ info[pos].end <=> pos \in gaps
                 /\ info[pos].start <=> LastOf(pos) \in gaps
            ELSE ~info[pos].end /\ ~info[pos].start

C21_Witness ==
    /\ pc = "create_info"
    /\ \E pos \in DOMAIN info : info[pos].end
    /\ \E pos \in DOMAIN info : info[pos].start /\ LastOf(pos) \in gaps

\* the candidates that a walk from a over circularly adjacent candidates,
\* ahead or behind, reaches
RunOf(a) ==
    {b \in candidates :
        \E d \in 0..(tracks[1] - 1) :
            \/ /\ (a + d) % tracks[1] = b
               /\ \A k \in 0..d : ((a + k) % tracks[1]) \in candidates
            \/ /\ (a - d) % tracks[1] = b
               /\ \A k \in 0..d : ((a - k) % tracks[1]) \in candidates}

\* C22: the groups that backwards/forward make are the maximal runs of
\* circularly adjacent candidates, a run through len-1 and 0 being one
\* group, and every candidate is in exactly one group.
C22_GroupsAreCircularRuns ==
    (pc = "create_info" /\ num_tracks > 1) =>
        /\ {Range(groups[i]) : i \in DOMAIN groups} = {RunOf(a) : a \in candidates}
        /\ \A a \in candidates :
               Cardinality({<<i, k>> \in (DOMAIN groups) \X (1..tracks[1]) :
                               k \in DOMAIN groups[i] /\ groups[i][k] = a}) = 1

----------------------------------------------------------------------------
(* reset(): the claims *)

\* C23: a call of _create_track that fails in _get_track or _remove_roads
\* leaves reset() in its loop, where the next step is a new call; a call
\* that finds no candidate point p3 takes the error out of reset(), and
\* from there no further call is made.
C23_RetryOrRaise ==
    [][/\ (op'.kind = "create_track" /\ op'.outcome \in {"get_track", "remove_roads"}) =>
              /\ pc' = "generating"
              /\ attempts' = attempts + 1
       /\ (op'.kind = "create_track" /\ op'.outcome = "p3") => pc' = "raised"
       /\ pc = "raised" => attempts' = attempts]_vars

C23_Witness ==
    /\ pc = "raised"
    /\ op.outcome = "p3"
    /\ attempts > 1

----------------------------------------------------------------------------
(* _get_track: the claim *)

\* C24: the path synthesis loop stops when the laps are counted or when
\* the budget of cursor steps is used up, and a loop that was stopped by
\* the budget makes _get_track return the failure signal, never a track.
C24_BudgetExhaustedFails ==
    (pc = "got_track" /\ op.kind = "get_track") =>
        /\ cursor.stopped \in {"laps", "budget"}
        /\ cursor.stopped = "budget" => op.outcome = "False"

----------------------------------------------------------------------------
(* The frontier while the car follows it *)

\* the step taken is an entry that consumes the only entry of the head of a
\* frontier whose other steps are all non-empty
ConsumesHead ==
    /\ EntersPrediction
    /\ Entries(next_nodes[1]) = {<<op'.id, op'.lane>>}
    /\ \A i \in 2..Len(next_nodes) : next_nodes[i] # <<>>

\* C25: an entry that consumes the last entry of the head, every other
\* step being non-empty, shifts the frontier by one step: each new step
\* but the last is the old step after it, and the new last step is the
\* successor expansion of the old last step.
C25_FollowingShiftsByOne ==
    [][ConsumesHead =>
          /\ Len(next_nodes') = Len(next_nodes)
          /\ \A k \in 1..(Len(next_nodes) - 1) :
                 next_nodes'[k] = next_nodes[k + 1]
          /\ next_nodes'[Len(next_nodes)] =
                 ExpandStep(next_nodes[Len(next_nodes)])]_vars

C25_Witness ==
    /\ op.kind = "begin"
    /\ op.matched
    /\ op.shifted
    /\ Len(next_nodes) = SHOW_NEXT_N_TILES
    /\ next_nodes[SHOW_NEXT_N_TILES] # <<>>

----------------------------------------------------------------------------
(* Occupancy and frontier under the contact callbacks *)

\* C26: under every interleaving of the contact callbacks of the wheels,
\* the occupancy holds (T, L) exactly when some wheel touches the tile body
\* (T, L); an end of contact of one wheel does not remove it while another
\* wheel still touches it.
C26_OccupancyIsTouchedBodies ==
    Entries(current_nodes) = {wb[2] : wb \in Touching}

\* C27: the frontier is the empty list exactly when the occupancy is empty,
\* holds exactly N steps otherwise, and never more than N.
C27_FrontierEmptyOrNSteps ==
    /\ next_nodes = <<>> <=> current_nodes = <<>>
    /\ current_nodes # <<>> => Len(next_nodes) = SHOW_NEXT_N_TILES
    /\ Len(next_nodes) <= SHOW_NEXT_N_TILES

C27_Witness ==
    /\ op.kind = "end"
    /\ current_nodes # <<>>
    /\ Len(next_nodes) = SHOW_NEXT_N_TILES

\* C28: every (tile, lane) of every step of the frontier is a tile body of
\* the track: the lane is below num_lanes and the tile has that lane.
C28_FrontierOnTileBodies ==
    \A k \in DOMAIN next_nodes :
        Entries(next_nodes[k]) \subseteq Bodies

\* the neighbour inside the spur of a start tile (+1) or an end tile (-1)
Inward(j) ==
    IF info[j].start THEN NaiveSuccessor(j, 1) ELSE NaiveSuccessor(j, -1)

\* C29: a start or end tile of the secondary track that the fan-out of its
\* intersection group has put in a step of the frontier, not the last one,
\* has its neighbour inside the spur in the step that follows.
C29_LookaheadEntersSpur ==
    \A k \in 1..(Len(next_nodes) - 1) :
        \A j \in Keys(next_nodes[k]) :
            (/\ info[j].track > 0
             /\ info[j].intersection_id # -1
             /\ info[j].start \/ info[j].end) =>
                Has(next_nodes[k + 1], Inward(j))

----------------------------------------------------------------------------
(* Junction fan-out: what a member gets *)

\* C30: in the fan-out a member of the group on the secondary track gets
\* both lanes with a direction that follows from its own flags and the
\* caller's direction alone, whatever the other members of the group are:
\* -1 if it is a start or an end tile, the caller's direction if it is not.
C30_MemberByOwnFlags ==
    op.kind = "get_next_node" =>
        LET succ == NaiveSuccessor(op.id, op.direction)
        IN  (op.next # <<>> /\ info[succ].intersection_id # -1) =>
                \A m \in Group(info[succ].intersection_id) :
                    info[m].track > 0 =>
                        /\ Has(op.next, m)
                        /\ Keys(Get(op.next, m)) = {0, 1}
                        /\ \A l \in {0, 1} :
                               Get(Get(op.next, m), l) =
                                   IF info[m].start \/ info[m].end THEN -1
                                   ELSE op.direction

====
